---- MODULE Spec2Model ----
(***************************************************************************)
(* Model of st2reactor's GarbageCollectorService                           *)
(* (src/st2reactor/st2reactor/garbage_collector/base.py) and of the        *)
(* result-status aggregation exercised by                                  *)
(* src/st2actions/tests/test_fabricrunner.py.                              *)
(*                                                                         *)
(* Control flow of the service.  run() executes on one flow of control     *)
(* (the main flow).  handle_sigusr2 is a Python signal handler: a          *)
(* delivery pushes a handler frame on top of whatever is executing, and    *)
(* the interrupted code continues only once the handler has returned, so   *)
(* the handler frames form a stack (`handlers`, top = last element) and    *)
(* only the top of the stack takes steps.  eventlet.sleep is the only      *)
(* suspension point; it is also the only place where an exception can be   *)
(* thrown into the flow from outside (greenlet kill).  Every action runs   *)
(* the executing code from one suspension point to the next.               *)
(*                                                                         *)
(* Integer configuration values follow Python 2 semantics: None is falsy   *)
(* and orders below every integer.                                         *)
(***************************************************************************)
EXTENDS Integers, Sequences, FiniteSets

\* ---------------------------------------------------------------- constants
\* st2common.constants.garbage_collection (imported at base.py:33-34)
MINIMUM_TTL_DAYS == 7
MINIMUM_TTL_DAYS_EXECUTION_OUTPUT == 1

\* ------------------------------------------------------------------- bounds
\* configured TTLs range up to the category minimum plus MaxExtraDays
MaxExtraDays == 1
\* get_datetime_utc_now() returns a day number in 0..MaxClock
MaxClock == 1
\* at most MaxHandlers signal-handler frames are stacked at a time
MaxHandlers == 1
\* target ids of an aggregated result are drawn from 1..MaxTargets
MaxTargets == 3

VARIABLES
    action_executions_ttl,         \* self._action_executions_ttl
    action_executions_output_ttl,  \* self._action_executions_output_ttl
    trigger_instances_ttl,         \* self._trigger_instances_ttl
    purge_inquiries,               \* self._purge_inquiries
    running,                       \* self._running (absent before run() = FALSE)
    pc,                            \* position of the main flow (__init__ / run)
    frame,                         \* the main flow's collection pass
    handlers,                      \* stack of handle_sigusr2 frames
    thrown,                        \* exception that ended run(), "none" if none
    exit_code,                     \* value returned by run(), "none" if none
    last_call,                     \* the latest purge method call and its result
    result,                        \* aggregator input: target id -> succeeded
    allow_partial_failure,         \* aggregator policy flag
    remaining,                     \* aggregator: targets not yet folded
    success,                       \* aggregator: accumulator
    status                         \* aggregator: verdict, "none" until done

gcvars == <<action_executions_ttl, action_executions_output_ttl,
            trigger_instances_ttl, purge_inquiries, running, pc, frame,
            handlers, thrown, exit_code, last_call>>
aggvars == <<result, allow_partial_failure, remaining, success, status>>
vars == <<action_executions_ttl, action_executions_output_ttl,
          trigger_instances_ttl, purge_inquiries, running, pc, frame,
          handlers, thrown, exit_code, last_call,
          result, allow_partial_failure, remaining, success, status>>

\* ------------------------------------------------------- configuration values
\* A configured TTL is None (unset) or an integer number of days.
None == [none |-> TRUE, days |-> 0]
Days(d) == [none |-> FALSE, days |-> d]

TTLValues(min) ==
    {None} \cup {Days(d) : d \in {-1, 0} \cup ((min - 1) .. (min + MaxExtraDays))}

\* Python truthiness of a TTL value: None and 0 are falsy.
Truthy(t) == ~t.none /\ t.days # 0
\* Python 2 ordering of a TTL value against an integer: None < every integer.
LessThan(t, m) == t.none \/ t.days < m
GreaterEq(t, m) == ~t.none /\ t.days >= m

\* The categories in the order _perform_garbage_collection visits them.
CategoryOrder ==
    <<"action_executions", "action_executions_output", "trigger_instances", "inquiries">>
Categories == 1 .. Len(CategoryOrder)

SUCCESS_EXIT_CODE == "SUCCESS"
FAILURE_EXIT_CODE == "FAILURE"

\* ------------------------------------------------------------ TTL validation
\* _validate_ttl_values: TRUE when it raises ValueError.
_validate_ttl_values_le ==
    \/ Truthy(action_executions_ttl)
         /\ (LessThan(action_executions_ttl, MINIMUM_TTL_DAYS)
             \/ action_executions_ttl.days = MINIMUM_TTL_DAYS)
    \/ Truthy(trigger_instances_ttl)
         /\ (LessThan(trigger_instances_ttl, MINIMUM_TTL_DAYS)
             \/ trigger_instances_ttl.days = MINIMUM_TTL_DAYS)
    \/ Truthy(action_executions_output_ttl)
         /\ (LessThan(action_executions_output_ttl, MINIMUM_TTL_DAYS_EXECUTION_OUTPUT)
             \/ action_executions_output_ttl.days = MINIMUM_TTL_DAYS_EXECUTION_OUTPUT)

_validate_ttl_values ==
    \/ Truthy(action_executions_ttl)
         /\ LessThan(action_executions_ttl, MINIMUM_TTL_DAYS)
    \/ Truthy(trigger_instances_ttl)
         /\ LessThan(trigger_instances_ttl, MINIMUM_TTL_DAYS)
    \/ Truthy(action_executions_output_ttl)
         /\ LessThan(action_executions_output_ttl, MINIMUM_TTL_DAYS_EXECUTION_OUTPUT)

\* ------------------------------------------------------------- purge methods
\* The result of one purge method.  outcome is "Rejected" when the method's own
\* sanity check or assert raises (the collaborator is not invoked), "Purged"
\* when the collaborator returned and "CollaboratorFailed" when it raised an
\* Exception; propagated tells whether an exception leaves the method.
PurgeResult(o, p, now, ts) ==
    [outcome |-> o, propagated |-> p, utc_now |-> now, timestamp |-> ts]

\* Variant that hands utc_now instead of timestamp to the collaborator.
PurgeWithTTL_now(ttl, min) ==
    UNION { LET timestamp == utc_now - ttl.days
            IN  IF timestamp > utc_now - min \/ ~(timestamp < utc_now)
                THEN {PurgeResult("Rejected", TRUE, utc_now, timestamp)}
                ELSE {PurgeResult("Purged", FALSE, utc_now, utc_now),
                      PurgeResult("CollaboratorFailed", FALSE, utc_now, utc_now)}
          : utc_now \in 0 .. MaxClock }

\* Variant without the try/except around the collaborator call.
PurgeWithTTL_nocatch(ttl, min) ==
    UNION { LET timestamp == utc_now - ttl.days
            IN  IF timestamp > utc_now - min \/ ~(timestamp < utc_now)
                THEN {PurgeResult("Rejected", TRUE, utc_now, timestamp)}
                ELSE {PurgeResult("Purged", FALSE, utc_now, timestamp),
                      PurgeResult("CollaboratorFailed", TRUE, utc_now, timestamp)}
          : utc_now \in 0 .. MaxClock }

\* Body shared by _purge_action_executions, _purge_action_executions_output
\* and _purge_trigger_instances, which differ in the TTL and the minimum only:
\* read the clock, compute the cutoff, sanity check, assert, then the
\* collaborator call inside try/except Exception.
PurgeWithTTL(ttl, min) ==
    UNION { LET timestamp == utc_now - ttl.days
            IN  IF timestamp > utc_now - min \/ ~(timestamp < utc_now)
                THEN {PurgeResult("Rejected", TRUE, utc_now, timestamp)}
                ELSE {PurgeResult("Purged", FALSE, utc_now, timestamp),
                      PurgeResult("CollaboratorFailed", FALSE, utc_now, timestamp)}
          : utc_now \in 0 .. MaxClock }

_purge_action_executions ==
    PurgeWithTTL(action_executions_ttl, MINIMUM_TTL_DAYS)

_purge_action_executions_output ==
    PurgeWithTTL(action_executions_output_ttl, MINIMUM_TTL_DAYS_EXECUTION_OUTPUT)

_purge_trigger_instances ==
    PurgeWithTTL(trigger_instances_ttl, MINIMUM_TTL_DAYS)

_timeout_inquiries ==
    {PurgeResult("Purged", FALSE, 0, 0), PurgeResult("CollaboratorFailed", FALSE, 0, 0)}

PurgeMethod(c) ==
    CASE CategoryOrder[c] = "action_executions" -> _purge_action_executions
      [] CategoryOrder[c] = "action_executions_output" -> _purge_action_executions_output
      [] CategoryOrder[c] = "trigger_instances" -> _purge_trigger_instances
      [] CategoryOrder[c] = "inquiries" -> _timeout_inquiries

\* ----------------------------------------------------------- collection pass
\* Variant whose TTL branches test only that the TTL is set.
Enabled_is_set(c) ==
    CASE CategoryOrder[c] = "action_executions" -> ~action_executions_ttl.none
      [] CategoryOrder[c] = "action_executions_output" -> ~action_executions_output_ttl.none
      [] CategoryOrder[c] = "trigger_instances" -> ~trigger_instances_ttl.none
      [] CategoryOrder[c] = "inquiries" -> purge_inquiries

\* Variant whose inquiries branch ignores the purge_inquiries flag.
Enabled_inquiries_always(c) ==
    CASE CategoryOrder[c] = "action_executions" ->
            GreaterEq(action_executions_ttl, MINIMUM_TTL_DAYS)
      [] CategoryOrder[c] = "action_executions_output" ->
            GreaterEq(action_executions_output_ttl, MINIMUM_TTL_DAYS_EXECUTION_OUTPUT)
      [] CategoryOrder[c] = "trigger_instances" ->
            GreaterEq(trigger_instances_ttl, MINIMUM_TTL_DAYS)
      [] CategoryOrder[c] = "inquiries" -> TRUE

\* Variant whose branches also test self._running.
Enabled_while_running(c) ==
    /\ running
    /\ CASE CategoryOrder[c] = "action_executions" ->
               GreaterEq(action_executions_ttl, MINIMUM_TTL_DAYS)
         [] CategoryOrder[c] = "action_executions_output" ->
               GreaterEq(action_executions_output_ttl, MINIMUM_TTL_DAYS_EXECUTION_OUTPUT)
         [] CategoryOrder[c] = "trigger_instances" ->
               GreaterEq(trigger_instances_ttl, MINIMUM_TTL_DAYS)
         [] CategoryOrder[c] = "inquiries" -> purge_inquiries

\* The conditions of the four branches of _perform_garbage_collection.
Enabled(c) ==
    CASE CategoryOrder[c] = "action_executions" ->
            GreaterEq(action_executions_ttl, MINIMUM_TTL_DAYS)
      [] CategoryOrder[c] = "action_executions_output" ->
            GreaterEq(action_executions_output_ttl, MINIMUM_TTL_DAYS_EXECUTION_OUTPUT)
      [] CategoryOrder[c] = "trigger_instances" ->
            GreaterEq(trigger_instances_ttl, MINIMUM_TTL_DAYS)
      [] CategoryOrder[c] = "inquiries" -> purge_inquiries

\* A frame of _perform_garbage_collection: `at` is "start" (called, nothing
\* executed yet), "sleep" (in eventlet.sleep(self._sleep_delay) after the
\* purge method of category `cat`), "done" (returned) or "raised" (an
\* exception is leaving it in the branch of `cat`).  `invoked` and `failed`
\* record, for this pass, the categories whose collaborator was invoked and
\* whether one of them raised; `order` lists the collaborator invocations of
\* this pass in the order they were made and `sleeps` counts its calls of
\* eventlet.sleep(self._sleep_delay).
NoFrame ==
    [at |-> "none", cat |-> 0, invoked |-> {}, failed |-> FALSE,
     order |-> <<>>, sleeps |-> 0]

StartFrame == [NoFrame EXCEPT !.at = "start"]

NoCall ==
    [ctx |-> "none", cat |-> 0, outcome |-> "none", propagated |-> FALSE,
     utc_now |-> 0, timestamp |-> 0, running |-> FALSE]

\* The call record of result r of category c's purge method, made in ctx.
Call(ctx, c, r) ==
    [ctx |-> ctx, cat |-> c, outcome |-> r.outcome, propagated |-> r.propagated,
     utc_now |-> r.utc_now, timestamp |-> r.timestamp, running |-> running]

\* The branches of _perform_garbage_collection from category c on, executed
\* up to the next eventlet.sleep, the return or an exception: the set of
\* [frame, call] the code can reach (call = NoCall when no branch was taken).
RECURSIVE PassFrom(_, _, _)
PassFrom(ctx, f, c) ==
    IF c > Len(CategoryOrder)
    THEN {[frame |-> [f EXCEPT !.at = "done", !.cat = Len(CategoryOrder)],
           call |-> NoCall]}
    ELSE IF Enabled(c)
    THEN { [frame |-> IF r.propagated
                      THEN [f EXCEPT !.at = "raised", !.cat = c,
                              !.invoked = IF r.outcome = "Rejected" THEN @ ELSE @ \cup {c},
                              !.order = IF r.outcome = "Rejected" THEN @ ELSE Append(@, c)]
                      ELSE [f EXCEPT !.at = "sleep", !.cat = c,
                              !.invoked = @ \cup {c},
                              !.failed = @ \/ r.outcome = "CollaboratorFailed",
                              !.order = Append(@, c),
                              !.sleeps = @ + 1],
            call |-> Call(ctx, c, r)]
           : r \in PurgeMethod(c) }
    ELSE PassFrom(ctx, f, c + 1)

\* Variant that resumes, after a sleep, at the branch it has just executed.
_perform_garbage_collection_again(ctx, f) ==
    PassFrom(ctx, f, IF f.at = "start" THEN 1 ELSE f.cat)

\* _perform_garbage_collection resumed in frame f (from its start, or from
\* the sleep after category f.cat).
_perform_garbage_collection(ctx, f) ==
    PassFrom(ctx, f, IF f.at = "start" THEN 1 ELSE f.cat + 1)

\* ------------------------------------------------------------------- run()
Constructed == pc \notin {"new", "ctor_raised"}
Registered == pc \notin {"new", "ctor_raised", "constructed"}
Terminated == pc \in {"returned", "raised"}

Top == handlers[Len(handlers)]
Pop == SubSeq(handlers, 1, Len(handlers) - 1)

\* Where the main flow stands with respect to run()'s try block.
MainWhere ==
    IF pc \in {"pass", "interval"} THEN "try"
    ELSE IF pc = "jitter" THEN "jitter" ELSE "gone"

\* An exception exc propagates out of the executing frame: every handler
\* frame is unwound, and the main flow receives it where it stands: inside
\* run()'s try block it is caught (lines 84-90), in the jitter sleep (line 80)
\* it leaves run(), and after run() has ended it no longer concerns run().
Unwind(exc, where) ==
    /\ handlers' = <<>>
    /\ IF where = "try"
       THEN /\ pc' = "returned"
            /\ running' = FALSE
            /\ thrown' = exc
            /\ exit_code' = IF exc = "GreenletExit" THEN SUCCESS_EXIT_CODE
                                                    ELSE FAILURE_EXIT_CODE
            /\ frame' = NoFrame
       ELSE IF where = "jitter"
       THEN /\ pc' = "raised"
            /\ thrown' = exc
            /\ UNCHANGED <<running, exit_code, frame>>
       ELSE UNCHANGED <<pc, running, thrown, exit_code, frame>>

\* The main flow continues with outcome o of its pass (line 106); when the
\* pass returns it enters eventlet.sleep(self._collection_interval) (line 110).
MainContinues(o) ==
    /\ last_call' = IF o.call = NoCall THEN last_call ELSE o.call
    /\ IF o.frame.at = "raised"
       THEN Unwind("Exception", "try")
       ELSE /\ frame' = o.frame
            /\ pc' = IF o.frame.at = "done" THEN "interval" ELSE "pass"
            /\ UNCHANGED <<running, handlers, thrown, exit_code>>

\* Variant of _main_loop that tests self._running only after the first pass.
_main_loop_dowhile ==
    IF running \/ pc = "jitter"
    THEN \E o \in _perform_garbage_collection("main", StartFrame) : MainContinues(o)
    ELSE /\ pc' = "returned"
         /\ exit_code' = SUCCESS_EXIT_CODE
         /\ frame' = NoFrame
         /\ UNCHANGED <<running, handlers, thrown, last_call>>

\* Variant of _main_loop without the test of self._running: `while True`.
_main_loop_forever ==
    \E o \in _perform_garbage_collection("main", StartFrame) : MainContinues(o)

\* _main_loop at the test of `while self._running`: the next pass up to its
\* first sleep, or the return of run() with SUCCESS_EXIT_CODE (line 92).
_main_loop ==
    IF running
    THEN \E o \in _perform_garbage_collection("main", StartFrame) : MainContinues(o)
    ELSE /\ pc' = "returned"
         /\ exit_code' = SUCCESS_EXIT_CODE
         /\ frame' = NoFrame
         /\ UNCHANGED <<running, handlers, thrown, last_call>>

\* GarbageCollectorService.__init__
__init__ ==
    /\ pc = "new"
    /\ pc' = IF _validate_ttl_values THEN "ctor_raised" ELSE "constructed"
    /\ UNCHANGED <<action_executions_ttl, action_executions_output_ttl,
                   trigger_instances_ttl, purge_inquiries, running, frame,
                   handlers, thrown, exit_code, last_call>>
    /\ UNCHANGED aggvars

\* run(), up to the jitter sleep (lines 73-80)
run ==
    /\ pc = "constructed"
    /\ running' = TRUE
    /\ pc' = "jitter"
    /\ UNCHANGED <<action_executions_ttl, action_executions_output_ttl,
                   trigger_instances_ttl, purge_inquiries, frame,
                   handlers, thrown, exit_code, last_call>>
    /\ UNCHANGED aggvars

\* the jitter sleep returns and run() enters _main_loop
jitter_wake ==
    /\ pc = "jitter"
    /\ handlers = <<>>
    /\ _main_loop
    /\ UNCHANGED <<action_executions_ttl, action_executions_output_ttl,
                   trigger_instances_ttl, purge_inquiries>>
    /\ UNCHANGED aggvars

\* an inter-category sleep of the scheduled pass returns
pass_wake ==
    /\ pc = "pass"
    /\ handlers = <<>>
    /\ \E o \in _perform_garbage_collection("main", frame) : MainContinues(o)
    /\ UNCHANGED <<action_executions_ttl, action_executions_output_ttl,
                   trigger_instances_ttl, purge_inquiries>>
    /\ UNCHANGED aggvars

\* the inter-pass sleep returns and the loop tests self._running again
interval_wake ==
    /\ pc = "interval"
    /\ handlers = <<>>
    /\ _main_loop
    /\ UNCHANGED <<action_executions_ttl, action_executions_output_ttl,
                   trigger_instances_ttl, purge_inquiries>>
    /\ UNCHANGED aggvars

\* shutdown(), callable at any time on a constructed service
shutdown ==
    /\ Constructed
    /\ running' = FALSE
    /\ UNCHANGED <<action_executions_ttl, action_executions_output_ttl,
                   trigger_instances_ttl, purge_inquiries, pc, frame,
                   handlers, thrown, exit_code, last_call>>
    /\ UNCHANGED aggvars

\* The handler on top of the stack continues with outcome o of its pass; when
\* the pass returns, so does the handler.
HandlerContinues(o, rest) ==
    /\ last_call' = IF o.call = NoCall THEN last_call ELSE o.call
    /\ IF o.frame.at = "raised"
       THEN Unwind("Exception", MainWhere)
       ELSE /\ handlers' = IF o.frame.at = "done" THEN rest
                           ELSE Append(rest, o.frame)
            /\ UNCHANGED <<running, pc, frame, thrown, exit_code>>

\* Variant of handle_sigusr2 that forces a pass only while self._running.
handle_sigusr2_if_running ==
    /\ Registered
    /\ running
    /\ Len(handlers) < MaxHandlers
    /\ \E o \in _perform_garbage_collection("handler", StartFrame) :
          HandlerContinues(o, handlers)
    /\ UNCHANGED <<action_executions_ttl, action_executions_output_ttl,
                   trigger_instances_ttl, purge_inquiries>>
    /\ UNCHANGED aggvars

\* delivery of SIGUSR2: handle_sigusr2 runs on top of the executing code
handle_sigusr2 ==
    /\ Registered
    /\ Len(handlers) < MaxHandlers
    /\ \E o \in _perform_garbage_collection("handler", StartFrame) :
          HandlerContinues(o, handlers)
    /\ UNCHANGED <<action_executions_ttl, action_executions_output_ttl,
                   trigger_instances_ttl, purge_inquiries>>
    /\ UNCHANGED aggvars

\* an inter-category sleep of the handler on top of the stack returns
handler_wake ==
    /\ handlers # <<>>
    /\ \E o \in _perform_garbage_collection("handler", Top) :
          HandlerContinues(o, Pop)
    /\ UNCHANGED <<action_executions_ttl, action_executions_output_ttl,
                   trigger_instances_ttl, purge_inquiries>>
    /\ UNCHANGED aggvars

\* The executing code is suspended in eventlet.sleep.
Sleeping == handlers # <<>> \/ pc \in {"jitter", "pass", "interval"}

\* eventlet.sleep raises: the greenlet is killed (GreenletExit) or another
\* exception is thrown into it
sleep_raises ==
    /\ Sleeping
    /\ \E exc \in {"GreenletExit", "Exception"} : Unwind(exc, MainWhere)
    /\ UNCHANGED <<action_executions_ttl, action_executions_output_ttl,
                   trigger_instances_ttl, purge_inquiries, last_call>>
    /\ UNCHANGED aggvars

\* ----------------------------------------------------- result aggregation
ACTIONEXEC_STATUS_SUCCEEDED == "succeeded"
ACTIONEXEC_STATUS_FAILED == "failed"

\* The non-empty results: target id -> succeeded.
Results ==
    UNION {[S -> BOOLEAN] : S \in (SUBSET (1 .. MaxTargets)) \ {{}}}

\* No aggregation is under way.
AggIdle ==
    /\ result = <<>>
    /\ allow_partial_failure = FALSE
    /\ remaining = {}
    /\ success = FALSE
    /\ status = "none"

\* The service is not constructed.
GCIdle ==
    /\ action_executions_ttl = None
    /\ action_executions_output_ttl = None
    /\ trigger_instances_ttl = None
    /\ purge_inquiries = FALSE
    /\ running = FALSE
    /\ pc = "new"
    /\ frame = NoFrame
    /\ handlers = <<>>
    /\ thrown = "none"
    /\ exit_code = "none"
    /\ last_call = NoCall

\* Variant of the fold whose partial-failure policy also accumulates with "and".
Fold_and(acc, apf, succeeded) == acc /\ succeeded

\* Variant of the fold whose strict policy also accumulates with "or".
Fold_or(acc, apf, succeeded) == acc \/ succeeded

\* Variant of the fold with the two policies exchanged.
Fold_swapped(acc, apf, succeeded) ==
    IF apf THEN acc /\ succeeded ELSE acc \/ succeeded

\* One target's flag folded into the accumulator under the policy.
Fold(acc, apf, succeeded) ==
    IF apf THEN acc \/ succeeded ELSE acc /\ succeeded

\* The flags of the targets in S folded into acc, one after the other.
RECURSIVE FoldAll(_, _, _, _)
FoldAll(res, S, apf, acc) ==
    IF S = {} THEN acc
    ELSE LET t == CHOOSE x \in S : TRUE
         IN FoldAll(res, S \ {t}, apf, Fold(acc, apf, res[t]))

\* The verdict of FabricRunner._get_result_status(res, apf).
_get_result_status(res, apf) ==
    IF FoldAll(res, DOMAIN res, apf, ~apf)
    THEN ACTIONEXEC_STATUS_SUCCEEDED
    ELSE ACTIONEXEC_STATUS_FAILED

\* FabricRunner._get_result_status(result, allow_partial_failure) is called
get_result_status ==
    /\ status = "none"
    /\ status' = "folding"
    /\ success' = ~allow_partial_failure
    /\ remaining' = DOMAIN result
    /\ UNCHANGED <<result, allow_partial_failure>>
    /\ UNCHANGED gcvars

\* the flag of one more target, in any order, is folded in
fold_target ==
    /\ status = "folding"
    /\ \E t \in remaining :
          /\ success' = Fold(success, allow_partial_failure, result[t])
          /\ remaining' = remaining \ {t}
    /\ UNCHANGED <<result, allow_partial_failure, status>>
    /\ UNCHANGED gcvars

\* every target is folded in: the verdict
return_status ==
    /\ status = "folding"
    /\ remaining = {}
    /\ status' = IF success THEN ACTIONEXEC_STATUS_SUCCEEDED
                            ELSE ACTIONEXEC_STATUS_FAILED
    /\ UNCHANGED <<result, allow_partial_failure, remaining, success>>
    /\ UNCHANGED gcvars

\* ------------------------------------------------------------ specifications
Init ==
    /\ action_executions_ttl \in TTLValues(MINIMUM_TTL_DAYS)
    /\ action_executions_output_ttl \in TTLValues(MINIMUM_TTL_DAYS_EXECUTION_OUTPUT)
    /\ trigger_instances_ttl \in TTLValues(MINIMUM_TTL_DAYS)
    /\ purge_inquiries \in BOOLEAN
    /\ running = FALSE
    /\ pc = "new"
    /\ frame = NoFrame
    /\ handlers = <<>>
    /\ thrown = "none"
    /\ exit_code = "none"
    /\ last_call = NoCall
    /\ AggIdle

Next ==
    \/ __init__
    \/ run
    \/ jitter_wake
    \/ pass_wake
    \/ interval_wake
    \/ shutdown
    \/ handle_sigusr2
    \/ handler_wake
    \/ sleep_raises

\* The garbage collector service.
Spec == Init /\ [][Next]_vars

\* The steps of a service in which no sleep raises.
NextLive ==
    \/ __init__
    \/ run
    \/ jitter_wake
    \/ pass_wake
    \/ interval_wake
    \/ shutdown
    \/ handle_sigusr2
    \/ handler_wake

\* The sleep of the main flow returns.
MainWake == jitter_wake \/ pass_wake \/ interval_wake

\* The sleep of the handler frame at depth k of the stack returns.
HandlerWakeAt(k) == Len(handlers) = k /\ handler_wake

\* The garbage collector service when every purge call and every sleep
\* terminates: the sleep of a frame returns at one of the recurring moments at
\* which no handler runs on top of that frame, for each handler frame and for
\* the main flow.
SpecLive ==
    /\ Init
    /\ [][NextLive]_vars
    /\ \A k \in 1 .. MaxHandlers : SF_vars(HandlerWakeAt(k))
    /\ SF_vars(MainWake)

InitAgg ==
    /\ GCIdle
    /\ result \in Results
    /\ allow_partial_failure \in BOOLEAN
    /\ remaining = {}
    /\ success = FALSE
    /\ status = "none"

NextAgg ==
    \/ get_result_status
    \/ fold_target
    \/ return_status

\* The result aggregator.
SpecAgg == InitAgg /\ [][NextAgg]_vars

\* ------------------------------------------------- vocabulary of the claims
\* The categories that carry a TTL, and each one's configured TTL and minimum.
TTLCategories == {c \in Categories : CategoryOrder[c] # "inquiries"}

ConfiguredTTL(c) ==
    CASE CategoryOrder[c] = "action_executions" -> action_executions_ttl
      [] CategoryOrder[c] = "action_executions_output" -> action_executions_output_ttl
      [] CategoryOrder[c] = "trigger_instances" -> trigger_instances_ttl

CategoryMinimum(c) ==
    IF CategoryOrder[c] = "action_executions_output"
    THEN MINIMUM_TTL_DAYS_EXECUTION_OUTPUT
    ELSE MINIMUM_TTL_DAYS

\* The configured TTL of c is nonzero and below the category minimum.
BelowMinimum(c) ==
    /\ ~ConfiguredTTL(c).none
    /\ ConfiguredTTL(c).days # 0
    /\ ConfiguredTTL(c).days < CategoryMinimum(c)

\* Category c is disabled by the configuration: TTL zero or unset, or the
\* purge_inquiries flag false.
DisabledByConfig(c) ==
    IF c \in TTLCategories
    THEN ConfiguredTTL(c).none \/ ConfiguredTTL(c).days = 0
    ELSE ~purge_inquiries

ConfiguredCategories == {c \in Categories : ~DisabledByConfig(c)}

\* The collection passes in flight: the scheduled one and the forced ones.
LiveFrames ==
    {f \in {frame} \cup {handlers[i] : i \in DOMAIN handlers} : f.at \in {"sleep", "done"}}

PassesInFlight == (IF pc = "pass" THEN 1 ELSE 0) + Len(handlers)

\* ------------------------------------------------------------------- claims
\* C1: at most one collection pass (scheduled or forced) is in flight in
\* every reachable state.  Stated as the claim has it; the code starts a
\* forced pass from the signal handler while another pass is suspended.
C1_OnePassInFlight == PassesInFlight <= 1

\* C2: construction fails if and only if some TTL-bearing category has a
\* nonzero TTL below its minimum, and after a failed construction nothing has
\* run or can run: the service is not running, no pass is in flight and no
\* purge method was called.
C2_ConstructionValidation ==
    /\ pc # "new" =>
          (pc = "ctor_raised" <=> \E c \in TTLCategories : BelowMinimum(c))
    /\ pc = "ctor_raised" =>
          /\ ~running
          /\ frame = NoFrame
          /\ handlers = <<>>
          /\ last_call = NoCall

\* C2 witness: construction failed on trigger_instances_ttl one day below the
\* minimum while action_executions_ttl sits at the minimum and the output TTL
\* is unset.
C2_Witness ==
    /\ pc = "ctor_raised"
    /\ action_executions_ttl = Days(MINIMUM_TTL_DAYS)
    /\ trigger_instances_ttl = Days(MINIMUM_TTL_DAYS - 1)
    /\ action_executions_output_ttl = None

C4_FailureIsolated ==
    /\ [](\A f \in LiveFrames :
            f.failed => f.invoked = {c \in ConfiguredCategories : c <= f.cat})
    /\ [][(last_call' # last_call /\ last_call'.outcome = "CollaboratorFailed") =>
            /\ running' = running
            /\ IF last_call'.ctx = "main"
               THEN /\ pc' = "pass"
                    /\ frame'.at = "sleep"
                    /\ frame'.cat = last_call'.cat
                    /\ frame'.failed
               ELSE /\ pc' = pc
                    /\ handlers' # <<>>
                    /\ handlers'[Len(handlers')].at = "sleep"
                    /\ handlers'[Len(handlers')].cat = last_call'.cat
                    /\ handlers'[Len(handlers')].failed]_vars
    /\ [][(pc = "interval" /\ frame.failed /\ running
             /\ (pc' # pc \/ frame' # frame) /\ thrown' = "none") =>
            /\ pc' \in {"pass", "interval"}
            /\ running'
            /\ frame'.invoked # {}]_vars

\* C4 witness: a scheduled pass in which a collaborator raised has returned
\* having attempted all four categories, the last of them purged, and the
\* scheduler is still Running.
C4_Witness ==
    /\ pc = "interval"
    /\ running
    /\ frame.failed
    /\ frame.invoked = Categories
    /\ last_call.ctx = "main"
    /\ last_call.outcome = "Purged"

\* C5: a category disabled by the configuration is skipped by every pass:
\* its purge method is never called and no pass sleeps after it.
C5_DisabledSkipped ==
    \A c \in Categories :
        DisabledByConfig(c) =>
            /\ last_call.cat # c
            /\ \A f \in LiveFrames :
                  /\ c \notin f.invoked
                  /\ ~(f.at = "sleep" /\ f.cat = c)

\* C5 witness: executions unset and trigger instances 0; a scheduled pass has
\* returned and a forced pass sleeps after its last category, both having
\* invoked exactly the two other categories.
C5_Witness ==
    /\ action_executions_ttl = None
    /\ trigger_instances_ttl = Days(0)
    /\ pc = "interval"
    /\ frame.invoked = {2, 4}
    /\ handlers # <<>>
    /\ Top.at = "sleep"
    /\ Top.cat = 4
    /\ Top.invoked = {2, 4}

\* C6: stop() during a scheduled pass does not truncate it.  (1) With Running
\* false, the scheduled pass has still attempted every configured category up
\* to its position.  (2) With Running false the main flow leaves the pass only
\* by the pass returning with every configured category attempted, or by an
\* exception.  (3) run() returns through the loop test only from a sleep
\* outside a pass, with Running false.
C6_StopDoesNotTruncate ==
    /\ []((pc \in {"pass", "interval"} /\ ~running) =>
            frame.invoked = {c \in ConfiguredCategories : c <= frame.cat})
    /\ [][(pc = "pass" /\ ~running /\ pc' # "pass") =>
            \/ pc' = "interval" /\ frame'.at = "done"
                 /\ frame'.invoked = ConfiguredCategories
            \/ pc' = "returned" /\ thrown' # "none"]_vars
    /\ [][(pc' = "returned" /\ pc # "returned" /\ thrown' = "none") =>
            pc \in {"jitter", "interval"} /\ ~running]_vars

\* C6 witness: the scheduled pass has returned with all four categories
\* attempted, the last purge call having been made after stop() had set
\* Running to false.
C6_Witness ==
    /\ pc = "interval"
    /\ ~running
    /\ frame.invoked = Categories
    /\ last_call.ctx = "main"
    /\ ~last_call.running
    /\ last_call.cat = Len(CategoryOrder)

\* C7: whenever run() has terminated, Running is false and the status was
\* returned according to the cause: success for the cooperative cancellation,
\* failure for another exception.  Stated as the claim has it; the jitter
\* sleep lies outside run()'s try block.
C7_ExitStatusByCause ==
    Terminated =>
        /\ ~running
        /\ pc = "returned"
        /\ thrown = "GreenletExit" => exit_code = SUCCESS_EXIT_CODE
        /\ thrown = "Exception" => exit_code = FAILURE_EXIT_CODE
        /\ thrown = "none" => exit_code = SUCCESS_EXIT_CODE

\* C8: the signal handler never invokes a purge operation and never sleeps:
\* no purge call is made in handler context and no handler frame is ever
\* suspended.  Stated as the claim has it; handle_sigusr2 runs the pass itself.
C8_HandlerOnlyRecordsRequest ==
    /\ last_call.ctx # "handler"
    /\ handlers = <<>>

\* C9: with allow_partial_failure true, the verdict for a non-empty result is
\* one of SUCCEEDED and FAILED, SUCCEEDED exactly when at least one target
\* succeeded and FAILED exactly when every target failed.
C9_PartialFailureVerdict ==
    (allow_partial_failure /\ status \notin {"none", "folding"}) =>
        /\ status \in {ACTIONEXEC_STATUS_SUCCEEDED, ACTIONEXEC_STATUS_FAILED}
        /\ status = ACTIONEXEC_STATUS_SUCCEEDED <=>
              \E t \in DOMAIN result : result[t]
        /\ status = ACTIONEXEC_STATUS_FAILED <=>
              \A t \in DOMAIN result : ~result[t]

\* C9 witness: test_pf_ok_some_success, {1: failed, 2: succeeded, 3: failed}
\* under the partial-failure policy, is SUCCEEDED.
C9_Witness ==
    /\ allow_partial_failure
    /\ result = [t \in 1 .. 3 |-> t = 2]
    /\ status = ACTIONEXEC_STATUS_SUCCEEDED

\* C10: with allow_partial_failure false, the verdict for a non-empty result
\* is SUCCEEDED exactly when every target succeeded and FAILED exactly when at
\* least one target failed.
C10_StrictVerdict ==
    (~allow_partial_failure /\ status \notin {"none", "folding"}) =>
        /\ status = ACTIONEXEC_STATUS_SUCCEEDED <=>
              \A t \in DOMAIN result : result[t]
        /\ status = ACTIONEXEC_STATUS_FAILED <=>
              \E t \in DOMAIN result : ~result[t]

\* C10 witness: test_pf_not_ok_some_success, {1: succeeded, 2: failed,
\* 3: failed} under the strict policy, is FAILED.
C10_Witness ==
    /\ ~allow_partial_failure
    /\ result = [t \in 1 .. 3 |-> t = 1]
    /\ status = ACTIONEXEC_STATUS_FAILED

\* C11: within any single pass (scheduled or forced) the purge operations are
\* invoked in the fixed order executions, execution-output, trigger-instances,
\* inquiries, each at most once: the invocations of a pass, in the order they
\* were made, are strictly increasing in that order.
C11_FixedOrderOncePerPass ==
    \A f \in LiveFrames :
        /\ \A i, j \in DOMAIN f.order : i < j => f.order[i] < f.order[j]
        /\ {f.order[i] : i \in DOMAIN f.order} = f.invoked

\* C11 witness: a forced pass has invoked all four categories, in order, while
\* the scheduled pass has invoked the first three.
C11_Witness ==
    /\ pc = "pass"
    /\ frame.order = <<1, 2, 3>>
    /\ handlers # <<>>
    /\ Top.order = <<1, 2, 3, 4>>

\* C12: an inter-category delay is slept only when another enabled category
\* follows in the pass: no pass sleeps after its last enabled category, and a
\* pass that has returned slept k - 1 times for k >= 1 enabled categories and
\* not at all for none.  Stated as the claim has it; the code sleeps inside
\* every taken branch, the last one included.
C12_DelayOnlyBetweenCategories ==
    \A f \in LiveFrames :
        /\ f.at = "sleep" => \E d \in ConfiguredCategories : d > f.cat
        /\ f.at = "done" =>
              f.sleeps = IF f.invoked = {} THEN 0 ELSE Cardinality(f.invoked) - 1

\* C17: after a successful construction a TTL-bearing category is taken by a
\* pass exactly when its configured TTL is at or above the category minimum,
\* and the sanity check of the purge methods never fires: no purge method
\* raises the minimum-TTL violation.
C17_SanityCheckNeverFires ==
    /\ last_call.outcome # "Rejected"
    /\ \A f \in LiveFrames :
          f.invoked \cap TTLCategories =
              {c \in TTLCategories :
                  /\ c <= f.cat
                  /\ ~ConfiguredTTL(c).none
                  /\ ConfiguredTTL(c).days >= CategoryMinimum(c)}

\* C17 witness: with action_executions_ttl at the minimum and the trigger
\* instances TTL 0, a forced pass has passed the trigger instances by after
\* purging the executions and sleeps after the inquiries.
C17_Witness ==
    /\ action_executions_ttl = Days(MINIMUM_TTL_DAYS)
    /\ trigger_instances_ttl = Days(0)
    /\ handlers # <<>>
    /\ Top.at = "sleep"
    /\ Top.cat = Len(CategoryOrder)
    /\ 1 \in Top.invoked
    /\ 3 \notin Top.invoked

\* C16: once shutdown() has cleared _running after run() set it, _running
\* stays cleared and no scheduled pass begins: a main flow in the jitter sleep
\* or in the inter-pass sleep stays there or ends run(), and a main flow inside
\* a pass only goes on with that pass; stopped in the jitter sleep, run() makes
\* no scheduled pass at all.
C16_NoScheduledPassAfterStop ==
    [][(Registered /\ ~running) =>
          /\ ~running'
          /\ pc \in {"jitter", "interval"} =>
                \/ pc' = pc /\ frame' = frame
                \/ pc' \in {"returned", "raised"}
          /\ pc = "pass" => pc' \in {"pass", "interval", "returned"}
          /\ (last_call'.ctx = "main" /\ last_call' # last_call) => pc = "pass"]_vars

\* C16 witness: with categories enabled, run() has returned SUCCESS_EXIT_CODE
\* without an exception and without any purge call: it was stopped in the
\* jitter sleep.
C16_Witness ==
    /\ pc = "returned"
    /\ exit_code = SUCCESS_EXIT_CODE
    /\ thrown = "none"
    /\ ~running
    /\ ConfiguredCategories # {}
    /\ last_call = NoCall

\* Steps left to the main flow before run() returns once it is stopped.
StepsToReturn ==
    CASE pc = "pass" -> 2
      [] pc \in {"jitter", "interval"} -> 1
      [] OTHER -> 0

\* C14: when shutdown() clears _running while run() is under way and every
\* purge call and every sleep terminates, run() eventually returns
\* SUCCESS_EXIT_CODE, and on the way it only finishes the pass in progress and
\* the inter-pass sleep that follows it.
C14_ShutdownLiveness ==
    /\ (Registered /\ ~running) ~> (pc = "returned" /\ exit_code = SUCCESS_EXIT_CODE)
    /\ [][(Registered /\ ~running) => StepsToReturn' <= StepsToReturn]_vars

\* C14 witness: run() has returned SUCCESS_EXIT_CODE without an exception
\* after a purge call that the scheduled pass made with _running cleared.
C14_Witness ==
    /\ pc = "returned"
    /\ exit_code = SUCCESS_EXIT_CODE
    /\ thrown = "none"
    /\ last_call.ctx = "main"
    /\ ~last_call.running

\* C15: delivery of SIGUSR2 does not hold up the periodic timer: whatever
\* signals were delivered and whatever forced passes are in flight, the
\* inter-pass sleep of the main flow can return and start the next scheduled
\* pass.
C15_TimerUnaffectedBySignal ==
    pc = "interval" => ENABLED interval_wake

\* C18: once run() has registered the handler, SIGUSR2 is handled whatever
\* _running is and wherever run() stands, also after shutdown() and after
\* run() has returned; the forced pass takes every enabled category up to its
\* position, and when no sleep raises its handler returns only after the last
\* enabled category.
C18_ForcedPassIgnoresRunState ==
    /\ [](Registered /\ Len(handlers) < MaxHandlers => ENABLED handle_sigusr2)
    /\ [](\A i \in DOMAIN handlers :
             handlers[i].invoked = {c \in ConfiguredCategories : c <= handlers[i].cat})
    /\ [][Len(handlers') < Len(handlers) =>
             /\ handlers' = Pop
             /\ \A c \in ConfiguredCategories : c <= Top.cat
             /\ last_call'.ctx = "handler"]_vars

\* C18 witness: after run() has returned with _running cleared, a forced pass
\* over at least two enabled categories sleeps after the last of them.
C18_Witness ==
    /\ pc = "returned"
    /\ ~running
    /\ handlers # <<>>
    /\ Top.at = "sleep"
    /\ Top.invoked = ConfiguredCategories
    /\ Cardinality(ConfiguredCategories) >= 2
    /\ last_call.ctx = "handler"
    /\ ~last_call.running

\* C19: the strict policy is at least as demanding as the partial-failure
\* policy: a call returns the verdict of its policy on the result; when a
\* strict call returns succeeded, the same result is succeeded under the
\* partial-failure policy, and when a partial-failure call returns failed, the
\* same result is failed under the strict policy.
C19_StrictAtLeastAsDemanding ==
    status \in {ACTIONEXEC_STATUS_SUCCEEDED, ACTIONEXEC_STATUS_FAILED} =>
        /\ status = _get_result_status(result, allow_partial_failure)
        /\ (~allow_partial_failure /\ status = ACTIONEXEC_STATUS_SUCCEEDED) =>
              _get_result_status(result, TRUE) = ACTIONEXEC_STATUS_SUCCEEDED
        /\ (allow_partial_failure /\ status = ACTIONEXEC_STATUS_FAILED) =>
              _get_result_status(result, FALSE) = ACTIONEXEC_STATUS_FAILED

\* C19 witness: a partial-failure call on a result of several targets has
\* returned failed.
C19_Witness ==
    /\ status = ACTIONEXEC_STATUS_FAILED
    /\ allow_partial_failure
    /\ Cardinality(DOMAIN result) >= 2
    /\ _get_result_status(result, FALSE) = ACTIONEXEC_STATUS_FAILED

====
